---------------------------- MODULE Spec2Model ----------------------------
(***************************************************************************)
(* State-machine model of src/src/App.svelte (ipa-extension-remover).      *)
(*                                                                         *)
(* The component is single-threaded JavaScript: a UI handler, or the       *)
(* continuation of an await, runs to its next await without interruption,  *)
(* and the promise reactions it queues (microtasks) run before the next    *)
(* UI event or I/O completion.  Every action below is therefore one such   *)
(* run-to-completion step: a handler together with the microtasks it       *)
(* triggers, or the resumption of one suspended async function.            *)
(*                                                                         *)
(* A file name is modelled as the sequence of its "/"-separated segments   *)
(* (what filename.split("/") returns), so a directory name, which ends in  *)
(* "/", ends in the empty segment.  A segment is <<stem, suffix>>, standing *)
(* for "stem.suffix" (or "stem" when the suffix is empty).                 *)
(***************************************************************************)
EXTENDS Integers, Sequences, FiniteSets, TLC

VARIABLES
    files,            \* line 19: 0 = undefined, else the id of the chosen file
    abortController,  \* line 21: 0 = null, else the id of the save attempt owning it
    ipa,              \* line 23: 0 = null, else the id of the file whose entries it holds
    metadata,         \* line 24: "null" or "dictionary"
    appIcon,          \* line 25: 0 = null, else the file whose icon was decoded
    extensions,       \* line 26: sequence of entries
    extensionsToKeep, \* line 27: function from file names to BOOLEAN
    saving,           \* line 30
    progress,         \* line 31
    progressMax,      \* line 32
    progressText,     \* line 33
    loads,            \* the loadIPA invocations, in order of their start
    jobs,             \* the _saveIPA executors, in order of their start
    saved             \* the saveBlob calls made so far, in order

vars == <<files, abortController, ipa, metadata, appIcon, extensions,
          extensionsToKeep, saving, progress, progressMax, progressText,
          loads, jobs, saved>>

(***************************************************************************)
(* Bounds.                                                                 *)
(***************************************************************************)
\* Number of asynchronous operations started in one behaviour: the files
\* dropped on the drop zone (loadIPA) and the save attempts that get past the
\* guard of saveIPA (_saveIPA) together.
MaxStarts == 4

(***************************************************************************)
(* File names.                                                             *)
(***************************************************************************)
Seg(stem, sfx) == <<stem, sfx>>

\* The empty string: the last element of split("/") for a name ending in "/".
Empty == Seg("", "")

Payload == Seg("Payload", "")
AppDir == Seg("App", "app")
PlugIns == Seg("PlugIns", "")

\* String.prototype.endsWith(".appex/"): the name ends in "/" and the segment
\* before it ends in ".appex".
EndsWithAppexSlash(filename) ==
    /\ Len(filename) >= 2
    /\ filename[Len(filename)] = Empty
    /\ filename[Len(filename) - 1][2] = "appex"

\* String.prototype.startsWith(prefix), for a prefix that ends in "/" (every
\* name it is called with at line 158 does, by line 60): the segments of the
\* prefix before its final empty one are the first segments of the name, and
\* the name goes on after the "/" with at least one, possibly empty, segment.
StartsWith(filename, prefix) ==
    /\ Len(filename) >= Len(prefix)
    /\ \A n \in 1..(Len(prefix) - 1) : filename[n] = prefix[n]
    /\ prefix[Len(prefix)] = Empty \/ filename[Len(prefix)] = prefix[Len(prefix)]

(***************************************************************************)
(* The archives a user can drop.  zip.js gives every entry it reads a      *)
(* getData method and sets directory exactly for the names ending in "/".  *)
(***************************************************************************)
Dir(filename) ==
    [filename |-> filename, directory |-> TRUE, getData |-> TRUE, data |-> 0]

File(filename, data) ==
    [filename |-> filename, directory |-> FALSE, getData |-> TRUE, data |-> data]

\* The example of the specification's section 8.
Catalog1 ==
    << Dir(<<Payload, AppDir, Empty>>),
       File(<<Payload, AppDir, Seg("Info", "plist")>>, 11),
       Dir(<<Payload, AppDir, PlugIns, Seg("Ext", "appex"), Empty>>),
       File(<<Payload, AppDir, PlugIns, Seg("Ext", "appex"), Seg("Ext", "")>>, 12) >>

\* Two bundles, one in PlugIns and one in Extensions; the entries under
\* Ext1.appex/ are not contiguous and a sibling's name extends "Ext1.appex".
Catalog2 ==
    << Dir(<<Payload, AppDir, PlugIns, Seg("Ext1", "appex"), Empty>>),
       Dir(<<Payload, AppDir, Seg("Extensions", ""), Seg("Ext2", "appex"), Empty>>),
       File(<<Payload, AppDir, PlugIns, Seg("Ext1.appex", "sig")>>, 21),
       File(<<Payload, AppDir, PlugIns, Seg("Ext1", "appex"), Seg("Info", "plist")>>, 22),
       File(<<Payload, AppDir, Seg("App", "")>>, 23) >>

\* No bundle at all; the descriptor and the icon it names.
Catalog3 ==
    << Dir(<<Payload, AppDir, Empty>>),
       File(<<Payload, AppDir, Seg("Info", "plist")>>, 31),
       File(<<Payload, AppDir, Seg("AppIcon60x60@2x", "png")>>, 32) >>

\* File 4 is not a zip archive: reader.getEntries() rejects.
Files == 1..4

Readable(f) == f \in 1..3

Catalog(f) ==
    CASE f = 1 -> Catalog1
      [] f = 2 -> Catalog2
      [] f = 3 -> Catalog3
      [] OTHER -> << >>

(***************************************************************************)
(* Pure helpers of the component.                                          *)
(***************************************************************************)
Range(s) == {s[n] : n \in 1..Len(s)}

Filenames(entries) == {entries[n].filename : n \in 1..Len(entries)}

\* Lines 59-61: entries.filter(entry.directory && filename.endsWith(".appex/")).
Discover(entries) ==
    SelectSeq(entries, LAMBDA e : e.directory /\ EndsWithAppexSlash(e.filename))

\* The places where extensionRegex (line 17),
\* /Payload\/[^/]+\.app\/PlugIns\/(?:([^/]+)\.appex)\//, matches a name: a
\* segment "Payload", a segment ending in ".app", the segment "PlugIns", a
\* segment ending in ".appex", each with something before its suffix, and one
\* more "/" after them.
ExtensionMatches(path) ==
    {n \in 1..(Len(path) - 4) :
        /\ path[n] = Payload
        /\ path[n + 1][1] # "" /\ path[n + 1][2] = "app"
        /\ path[n + 2] = PlugIns
        /\ path[n + 3][1] # "" /\ path[n + 3][2] = "appex"}

\* Lines 99-103: the first group of the match, or null without a match.
getExtensionName(path) ==
    IF ExtensionMatches(path) = {}
    THEN "null"
    ELSE LET n == CHOOSE m \in ExtensionMatches(path) :
                      \A o \in ExtensionMatches(path) : m <= o
         IN  path[n + 3][1]

\* Lines 62-64: Object.fromEntries(extensions.map(e => [e.filename, true])).
InitialSelection(exts) == [name \in Filenames(exts) |-> TRUE]

\* Faulty variant of EveryKept: the test of line 136 negated.
NoneKept(keep) == \A name \in DOMAIN keep : ~keep[name]

\* Line 136: Object.values(extensionsToKeep).every((e) => e).
EveryKept(keep) == \A name \in DOMAIN keep : keep[name]

\* Lines 145-147: the file names of the extensions whose selection value is
\* falsy (a missing key reads as undefined).
ExtensionsToRemove(exts, keep) ==
    LET removed ==
            SelectSeq(exts, LAMBDA e : e.filename \notin DOMAIN keep \/ ~keep[e.filename])
    IN  [n \in 1..Len(removed) |-> removed[n].filename]

\* Faulty variant of Skip: only the first removal prefix is looked at.
SkipFirstOnly(entry, toRemove) ==
    Len(toRemove) > 0 /\ StartsWith(entry.filename, toRemove[1])

\* Lines 156-162: the entry's name starts with one of the removal prefixes.
Skip(entry, toRemove) ==
    \E n \in 1..Len(toRemove) : StartsWith(entry.filename, toRemove[n])

\* Faulty variant of ProgressTotal: the product rounded down.
ProgressTotalFloor(length) == (length * 11) \div 10

\* Line 152: Math.round(ipa.length * 1.1), rounding halves up.
ProgressTotal(length) == (length * 11 + 5) \div 10

\* Faulty variant of LoopBreaks: the test of line 154 left out.
NeverBreaks(aborted) == FALSE

\* Line 154: the loop leaves when the listener has set aborted.
LoopBreaks(aborted) == aborted

RECURSIVE RunLoop(_, _, _, _)
\* Lines 153-176, from the top of the iteration for entry i (not aborted) to
\* the next await: each entry met counts one unit of progress (line 155); a
\* skipped entry, or a file without getData, goes on to the next entry.  The
\* result is where the executor suspends: awaiting add of directory i (line
\* 166), getData of file i (line 171), or, the loop over, close (line 178).
RunLoop(entries, toRemove, i, count) ==
    IF i > Len(entries)
    THEN [pc |-> "close", i |-> i, progress |-> count, text |-> "Finalizing archive"]
    ELSE IF Skip(entries[i], toRemove)
    THEN RunLoop(entries, toRemove, i + 1, count + 1)
    ELSE IF entries[i].directory
    THEN [pc |-> "add", i |-> i, progress |-> count + 1, text |-> "Creating directory"]
    ELSE IF entries[i].getData
    THEN [pc |-> "read", i |-> i, progress |-> count + 1, text |-> "Adding"]
    ELSE RunLoop(entries, toRemove, i + 1, count + 1)

\* The argument list of one zipWriter.add call (lines 166 and 174); idx is the
\* position in the catalog of the entry the call is made for.
AddCall(entries, i) ==
    [idx |-> i,
     filename |-> entries[i].filename,
     directory |-> entries[i].directory,
     data |-> IF entries[i].directory THEN 0 ELSE entries[i].data]

\* The add calls made once the loop has run to `at`: suspending at the add of
\* a directory (line 166) is making that call.
AddsAt(adds, entries, at) ==
    IF at.pc = "add" THEN Append(adds, AddCall(entries, at.i)) ELSE adds

(***************************************************************************)
(* Initial state: lines 19-33.                                             *)
(***************************************************************************)
Init ==
    /\ files = 0
    /\ abortController = 0
    /\ ipa = 0
    /\ metadata = "null"
    /\ appIcon = 0
    /\ extensions = << >>
    /\ extensionsToKeep = << >>
    /\ saving = FALSE
    /\ progress = 0
    /\ progressMax = 0
    /\ progressText = "Idle"
    /\ loads = << >>
    /\ jobs = << >>
    /\ saved = << >>

\* What the template renders (lines 208-291).
DropzoneShown == files = 0
BackShown == files # 0 /\ ipa # 0
TogglesShown == BackShown /\ Len(extensions) # 0
SaveShown == TogglesShown

(***************************************************************************)
(* loadIPA, lines 51-81.                                                   *)
(***************************************************************************)
\* metadataRegex (line 14) finds Payload/<name>.app/Info.plist in the name.
\* The pattern is not anchored; the names of the archives above hold the
\* three segments only as a whole, or not at all.
MetadataMatch(filename) ==
    \E n \in 1..(Len(filename) - 2) :
        /\ filename[n] = Payload
        /\ filename[n + 1][2] = "app" /\ filename[n + 1][1] # ""
        /\ filename[n + 2] = Seg("Info", "plist")

\* appIconRegex("AppIcon60x60") (lines 15-16) finds
\* Payload/<name>.app/AppIcon60x60<@Nx>.<extension> in the name.
IconMatch(filename) ==
    \E n \in 1..(Len(filename) - 2) :
        /\ filename[n] = Payload
        /\ filename[n + 1][2] = "app" /\ filename[n + 1][1] # ""
        /\ filename[n + 2][1] \in {"AppIcon60x60", "AppIcon60x60@2x", "AppIcon60x60@3x"}
        /\ filename[n + 2][2] # ""

\* Lines 85-88: ipa.find(...) finds a descriptor entry (with getData).
HasMetadataEntry(entries) ==
    \E n \in 1..Len(entries) :
        MetadataMatch(entries[n].filename) /\ entries[n].getData

\* Lines 72-73: ipa.find(...) finds an icon entry (with getData).
HasIconEntry(entries) ==
    \E n \in 1..Len(entries) :
        IconMatch(entries[n].filename) /\ entries[n].getData

\* A loadIPA invocation that has returned or thrown.  A running one records
\* the file it reads, where it is suspended and, from line 72 on, the file
\* its icon entry belongs to.  It is suspended at "entries" (line 57), at
\* "metadata" (the awaits of lines 89 and 91) or at "icon" (the awaits of
\* lines 74 and 75); two awaits that follow each other with no access to the
\* component's state in between are one position.
LoadEnded == [file |-> 0, pc |-> "done", icon |-> 0]

\* The user drops file f on the drop zone (rendered while files is undefined,
\* disabled while saving): bind:files stores it and onchange calls loadIPA,
\* which suspends at reader.getEntries() (line 57).
ChooseFile(f) ==
    /\ DropzoneShown
    /\ ~saving
    /\ Len(loads) + Len(jobs) < MaxStarts
    /\ files' = f
    /\ loads' = Append(loads, [file |-> f, pc |-> "entries", icon |-> 0])
    /\ UNCHANGED <<abortController, ipa, metadata, appIcon, extensions,
                   extensionsToKeep, saving, progress, progressMax,
                   progressText, jobs, saved>>

\* getEntries() resolves: lines 58-64 publish the catalog, the discovered
\* extensions and the all-keep selection, and getMetadata is called (line
\* 65).  Without a descriptor entry it returns null at line 88, metadata is
\* set to null and loadIPA returns at line 66; with one, it suspends at the
\* entry's getData (line 89).
LoadEntries(l) ==
    /\ loads[l].pc = "entries"
    /\ Readable(loads[l].file)
    /\ ipa' = loads[l].file
    /\ extensions' = Discover(Catalog(loads[l].file))
    /\ extensionsToKeep' = InitialSelection(Discover(Catalog(loads[l].file)))
    /\ IF HasMetadataEntry(Catalog(loads[l].file))
       THEN /\ loads' = [loads EXCEPT ![l].pc = "metadata"]
            /\ UNCHANGED metadata
       ELSE /\ loads' = [loads EXCEPT ![l] = LoadEnded]
            /\ metadata' = "null"
    /\ UNCHANGED <<files, abortController, appIcon, saving, progress,
                   progressMax, progressText, jobs, saved>>

\* getEntries() rejects: loadIPA throws at line 57 and nothing is assigned.
LoadEntriesFail(l) ==
    /\ loads[l].pc = "entries"
    /\ ~Readable(loads[l].file)
    /\ loads' = [loads EXCEPT ![l] = LoadEnded]
    /\ UNCHANGED <<files, abortController, ipa, metadata, appIcon, extensions,
                   extensionsToKeep, saving, progress, progressMax,
                   progressText, jobs, saved>>

\* What getMetadata can return once the bytes are there (lines 91-96): null
\* when arrayBuffer or parsePlist throws, else the dictionary parsed, which
\* has no CFBundleIcons ("plain"), a CFBundleIcons naming the icon
\* "AppIcon60x60" ("icons"), or a CFBundleIcons without CFBundlePrimaryIcon
\* ("badIcons").
Parsed == {"null", "plain", "icons", "badIcons"}

\* metadataEntry.getData resolves, arrayBuffer settles (lines 89-91) and
\* getMetadata returns: line 65 assigns metadata, and lines 66-73 look the
\* icon up in the ipa of that moment.  loadIPA throws at line 69 on a
\* CFBundleIcons without primary icon and at line 72 when ipa is null; it
\* returns when there is no CFBundleIcons or no icon entry, and suspends at
\* the icon entry's getData (line 74) otherwise.
MetadataDone(l, parsed) ==
    /\ loads[l].pc = "metadata"
    /\ metadata' = IF parsed = "null" THEN "null" ELSE "dictionary"
    /\ IF parsed = "icons" /\ ipa # 0 /\ HasIconEntry(Catalog(ipa))
       THEN loads' = [loads EXCEPT ![l].pc = "icon", ![l].icon = ipa]
       ELSE loads' = [loads EXCEPT ![l] = LoadEnded]
    /\ UNCHANGED <<files, abortController, ipa, appIcon, extensions,
                   extensionsToKeep, saving, progress, progressMax,
                   progressText, jobs, saved>>

\* iconEntry.getData and then cgbiToPng resolve (lines 74-75): appIcon is set
\* (lines 76-78) to a URL of the decoded icon, named here by the file the
\* icon entry came from.
IconDecoded(l) ==
    /\ loads[l].pc = "icon"
    /\ appIcon' = loads[l].icon
    /\ loads' = [loads EXCEPT ![l] = LoadEnded]
    /\ UNCHANGED <<files, abortController, ipa, metadata, extensions,
                   extensionsToKeep, saving, progress, progressMax,
                   progressText, jobs, saved>>

\* Faulty variant of LoadFail: the failure of a resolver also resets what
\* loadIPA had published.
LoadFailResets(l) ==
    /\ loads[l].pc \in {"metadata", "icon"}
    /\ loads' = [loads EXCEPT ![l] = LoadEnded]
    /\ ipa' = 0
    /\ extensions' = <<>>
    /\ extensionsToKeep' = <<>>
    /\ UNCHANGED <<files, abortController, metadata, appIcon, saving,
                   progress, progressMax, progressText, jobs, saved>>

\* An awaited call outside the try of getMetadata rejects (the descriptor's
\* getData, the icon's getData, cgbiToPng): loadIPA throws, assigning nothing.
LoadFail(l) ==
    /\ loads[l].pc \in {"metadata", "icon"}
    /\ loads' = [loads EXCEPT ![l] = LoadEnded]
    /\ UNCHANGED <<files, abortController, ipa, metadata, appIcon, extensions,
                   extensionsToKeep, saving, progress, progressMax,
                   progressText, jobs, saved>>

(***************************************************************************)
(* The toggle of one extension, lines 263-274 (disabled while saving).     *)
(***************************************************************************)
\* Faulty variant of ToggleKey: the key is the bundle's own segment, not the
\* entry's file name.
ToggleKeyByName(name) == <<name[Len(name) - 1]>>

\* Lines 270-271: the key written is extension.filename.
ToggleKey(name) == name

Toggle(name) ==
    /\ TogglesShown
    /\ ~saving
    /\ name \in Filenames(extensions)
    /\ extensionsToKeep' =
           [k \in DOMAIN extensionsToKeep \cup {ToggleKey(name)} |->
               IF k = ToggleKey(name)
               THEN ~(k \in DOMAIN extensionsToKeep /\ extensionsToKeep[k])
               ELSE extensionsToKeep[k]]
    /\ UNCHANGED <<files, abortController, ipa, metadata, appIcon, extensions,
                   saving, progress, progressMax, progressText, loads, jobs,
                   saved>>

(***************************************************************************)
(* saveIPA, lines 105-118, and the executor of _saveIPA, lines 120-187.    *)
(*                                                                         *)
(* jobs[j] is the executor of the j-th save attempt that passed the guard  *)
(* of saveIPA: file and cat are the `file` and the `ipa` array it          *)
(* captured, toRemove its extensionsToRemove, aborted its local flag,      *)
(* writer/closed the state of its zipWriter, adds the zipWriter.add calls  *)
(* it has made, i the entry it is processing, and pc the await it is       *)
(* suspended at: "read" (line 171), "add" (lines 166 and 174), "close"     *)
(* (line 178) or "getData" (line 181).  pc is "threw" once an awaited call *)
(* has rejected, and "done" once the executor has returned.  The locals of *)
(* an executor that has ended are dropped (its record becomes Ended) as    *)
(* soon as saveIPA, which awaits its promise, has finished too.            *)
(*                                                                         *)
(* The promise of the j-th attempt is pending exactly while                *)
(* abortController = j: saveIPA sets abortController before it calls       *)
(* _saveIPA and clears it in the microtask that follows the settlement.    *)
(***************************************************************************)
Ended ==
    [file |-> 0, cat |-> 0, toRemove |-> << >>, i |-> 0, pc |-> "done",
     aborted |-> FALSE, writer |-> FALSE, closed |-> FALSE, adds |-> << >>]

\* An executor that threw while saveIPA still awaits its promise.
Threw == [Ended EXCEPT !.pc = "threw"]

Suspended(job) == job.pc \in {"read", "add", "close", "getData"}

Pending(j) == abortController = j

\* One saveBlob call (lines 197-204): the blob, and for the record the job
\* that made it, the prefixes it removed and whether its listener had run.
FileBlob(j, f) ==
    [job |-> j, kind |-> "file", file |-> f, removed |-> << >>,
     entries |-> << >>, aborted |-> FALSE]

ArchiveBlob(j, job) ==
    [job |-> j, kind |-> "archive", file |-> job.file, removed |-> job.toRemove,
     entries |-> job.adds, aborted |-> job.aborted]

\* Faulty variant of SaveFinally: the controller of the attempt is kept.
SaveFinallyKeepsController ==
    /\ saving' = FALSE
    /\ UNCHANGED abortController

\* Lines 112-117, run as a microtask when the awaited promise settles.
SaveFinally ==
    /\ abortController' = 0
    /\ saving' = FALSE

\* Line 106: the call returns at once.
SaveIgnored ==
    /\ abortController # 0 \/ saving
    /\ UNCHANGED vars

\* Lines 132-134: no package is loaded; the promise is rejected.  (The
\* template renders the button only when files and ipa are set.)
SaveNotLoaded ==
    /\ files = 0 \/ ipa = 0
    /\ jobs' = Append(jobs, Ended)
    /\ progress' = 0
    /\ SaveFinally
    /\ UNCHANGED <<files, ipa, metadata, appIcon, extensions, extensionsToKeep,
                   progressMax, progressText, loads, saved>>

\* Lines 136-143: nothing is removed; the chosen file itself is saved.
SaveUnchanged ==
    /\ files # 0 /\ ipa # 0
    /\ EveryKept(extensionsToKeep)
    /\ jobs' = Append(jobs, Ended)
    /\ progressMax' = 1
    /\ progress' = 1
    /\ progressText' = "Done!"
    /\ saved' = Append(saved, FileBlob(Len(jobs) + 1, files))
    /\ SaveFinally
    /\ UNCHANGED <<files, ipa, metadata, appIcon, extensions, extensionsToKeep,
                   loads>>

\* Lines 144-176, up to the first await: the writer is created, the total is
\* set, and the loop runs to the first entry that is not skipped.
SaveRebuild ==
    /\ files # 0 /\ ipa # 0
    /\ ~EveryKept(extensionsToKeep)
    /\ LET toRemove == ExtensionsToRemove(extensions, extensionsToKeep)
           at == RunLoop(Catalog(ipa), toRemove, 1, 0)
       IN  /\ jobs' = Append(jobs,
                   [Ended EXCEPT !.file = files, !.cat = ipa,
                                 !.toRemove = toRemove, !.writer = TRUE,
                                 !.pc = at.pc, !.i = at.i,
                                 !.adds = AddsAt(<< >>, Catalog(ipa), at)])
           /\ progressMax' = ProgressTotal(Len(Catalog(ipa)))
           /\ progress' = at.progress
           /\ progressText' = at.text
    /\ abortController' = Len(jobs) + 1
    /\ saving' = TRUE
    /\ UNCHANGED <<files, ipa, metadata, appIcon, extensions, extensionsToKeep,
                   loads, saved>>

\* Line 106: a call goes on only when no controller is set and nothing is
\* being saved.
SaveGuard == abortController = 0 /\ ~saving

\* A click on Save.  The button is rendered with the toggles; its `disabled`
\* attribute repeats the guard of line 106, which is what is modelled.
SaveIPA ==
    /\ SaveShown
    /\ \/ SaveIgnored
       \/ /\ SaveGuard
          /\ Len(loads) + Len(jobs) < MaxStarts
          /\ (SaveNotLoaded \/ SaveUnchanged \/ SaveRebuild)

\* The top of the loop for entry i, after an await of the loop has resolved:
\* line 154 breaks when aborted, and the executor then calls close (line 178)
\* without touching the status text (line 177).
ContinueLoop(j, i) ==
    IF LoopBreaks(jobs[j].aborted)
    THEN /\ jobs' = [jobs EXCEPT ![j].pc = "close"]
         /\ UNCHANGED <<progress, progressText>>
    ELSE LET at == RunLoop(Catalog(jobs[j].cat), jobs[j].toRemove, i, progress)
         IN  /\ jobs' = [jobs EXCEPT ![j].pc = at.pc, ![j].i = at.i,
                                     ![j].adds = AddsAt(@, Catalog(jobs[j].cat), at)]
             /\ progress' = at.progress
             /\ progressText' = at.text

\* entry.getData resolves (line 171): zipWriter.add is called with the data
\* read (line 174).
ReadDone(j) ==
    /\ jobs[j].pc = "read"
    /\ jobs' = [jobs EXCEPT ![j].pc = "add",
                            ![j].adds = Append(@, AddCall(Catalog(jobs[j].cat), jobs[j].i))]
    /\ UNCHANGED <<files, abortController, ipa, metadata, appIcon, extensions,
                   extensionsToKeep, saving, progress, progressMax,
                   progressText, loads, saved>>

\* Faulty variant of AddDone: the loop does not advance to the next entry.
AddDoneSameEntry(j) ==
    /\ jobs[j].pc = "add"
    /\ ContinueLoop(j, jobs[j].i)
    /\ UNCHANGED <<files, abortController, ipa, metadata, appIcon, extensions,
                   extensionsToKeep, saving, progressMax, loads, saved>>

\* zipWriter.add resolves (line 166 or 174): on to the next entry.
AddDone(j) ==
    /\ jobs[j].pc = "add"
    /\ ContinueLoop(j, jobs[j].i + 1)
    /\ UNCHANGED <<files, abortController, ipa, metadata, appIcon, extensions,
                   extensionsToKeep, saving, progressMax, loads, saved>>

\* Line 179: an aborted executor returns once close has resolved.
ReturnsAfterClose(aborted) == aborted

\* zipWriter.close resolves (line 178): an aborted executor returns (line
\* 179), another one asks the blob writer for the archive (lines 180-181).
CloseDone(j) ==
    /\ jobs[j].pc = "close"
    /\ IF ReturnsAfterClose(jobs[j].aborted)
       THEN /\ jobs' = [jobs EXCEPT ![j] = Ended]
            /\ UNCHANGED progressText
       ELSE /\ jobs' = [jobs EXCEPT ![j].pc = "getData", ![j].closed = TRUE]
            /\ progressText' = "Saving archive"
    /\ UNCHANGED <<files, abortController, ipa, metadata, appIcon, extensions,
                   extensionsToKeep, saving, progress, progressMax, loads,
                   saved>>

\* Faulty variant of GetDataDone: resolve() is not called, so the promise
\* saveIPA awaits stays pending.
GetDataDoneNoResolve(j) ==
    /\ jobs[j].pc = "getData"
    /\ saved' = Append(saved, ArchiveBlob(j, jobs[j]))
    /\ progress' = progressMax
    /\ progressText' = "Done!"
    /\ jobs' = [jobs EXCEPT ![j] = Ended]
    /\ UNCHANGED <<files, abortController, ipa, metadata, appIcon, extensions,
                   extensionsToKeep, saving, progressMax, loads>>

\* blobWriter.getData resolves (line 181): the archive is saved, progress is
\* set to the total and resolve is called (lines 181-185); resolve settles
\* the promise, and saveIPA then finishes, only if the promise is pending.
GetDataDone(j) ==
    /\ jobs[j].pc = "getData"
    /\ saved' = Append(saved, ArchiveBlob(j, jobs[j]))
    /\ progress' = progressMax
    /\ progressText' = "Done!"
    /\ jobs' = [jobs EXCEPT ![j] = Ended]
    /\ IF Pending(j) THEN SaveFinally ELSE UNCHANGED <<abortController, saving>>
    /\ UNCHANGED <<files, ipa, metadata, appIcon, extensions, extensionsToKeep,
                   progressMax, loads>>

\* An awaited call of the executor rejects (a read or a write error): the
\* async executor throws.  The Promise constructor ignores what an async
\* executor returns, so neither resolve nor reject is called: the promise
\* stays as it is, pending unless the listener has rejected it.
IOFail(j) ==
    /\ Suspended(jobs[j])
    /\ jobs' = [jobs EXCEPT ![j] = IF Pending(j) THEN Threw ELSE Ended]
    /\ UNCHANGED <<files, abortController, ipa, metadata, appIcon, extensions,
                   extensionsToKeep, saving, progress, progressMax,
                   progressText, loads, saved>>

(***************************************************************************)
(* clearIPA, lines 35-49 (the Back button).                                *)
(***************************************************************************)
\* Lines 124-129: the abort listener of an executor; the rejection of the
\* promise is in ClearIPA.
AbortListener(job) ==
    IF Suspended(job) THEN [job EXCEPT !.aborted = TRUE] ELSE Ended

\* abort() runs the listener of the pending attempt, whose rejection resumes
\* saveIPA at its catch (lines 112-117) once clearIPA has returned.
ClearIPA ==
    /\ BackShown
    /\ IF abortController # 0
       THEN jobs' = [jobs EXCEPT ![abortController] = AbortListener(@)]
       ELSE UNCHANGED jobs
    /\ abortController' = 0
    /\ files' = 0
    /\ ipa' = 0
    /\ metadata' = "null"
    /\ appIcon' = 0
    /\ extensions' = << >>
    /\ extensionsToKeep' = << >>
    /\ saving' = FALSE
    /\ progress' = 0
    /\ progressMax' = 0
    /\ progressText' = "Idle"
    /\ UNCHANGED <<loads, saved>>

(***************************************************************************)
(* The specification.                                                      *)
(***************************************************************************)
Next ==
    \/ \E f \in Files : ChooseFile(f)
    \/ \E l \in 1..Len(loads) : LoadEntries(l)
    \/ \E l \in 1..Len(loads) : LoadEntriesFail(l)
    \/ \E l \in 1..Len(loads), parsed \in Parsed : MetadataDone(l, parsed)
    \/ \E l \in 1..Len(loads) : IconDecoded(l)
    \/ \E l \in 1..Len(loads) : LoadFail(l)
    \/ \E name \in Filenames(extensions) : Toggle(name)
    \/ SaveIPA
    \/ \E j \in 1..Len(jobs) : ReadDone(j)
    \/ \E j \in 1..Len(jobs) : AddDone(j)
    \/ \E j \in 1..Len(jobs) : CloseDone(j)
    \/ \E j \in 1..Len(jobs) : GetDataDone(j)
    \/ \E j \in 1..Len(jobs) : IOFail(j)
    \/ ClearIPA

Spec == Init /\ [][Next]_vars

\* One step of the executor of attempt j: an awaited call of its resolves.
JobStep(j) ==
    /\ j \in 1..Len(jobs)
    /\ ReadDone(j) \/ AddDone(j) \/ CloseDone(j) \/ GetDataDone(j)

\* The program with fair I/O: an awaited call of an executor that can resolve
\* does not stay pending for ever.
FairSpec == Spec /\ \A j \in 1..MaxStarts : WF_vars(JobStep(j))

(***************************************************************************)
(* Properties.                                                             *)
(***************************************************************************)
Jobs == 1..Len(jobs)

Blobs == Range(saved)

\* The entries of file f whose name no member of prefixes is a prefix of.
Survivors(f, prefixes) ==
    {n \in 1..Len(Catalog(f)) :
        \A r \in prefixes : ~StartsWith(Catalog(f)[n].filename, r)}

\* The discovered directory paths a selection maps to false.
Unselected(keep) == {name \in DOMAIN keep : keep[name] = FALSE}

\* C1 (subtree removal): while a rebuild is the pending attempt, its removal
\* prefixes are exactly the discovered paths the selection maps to false, a
\* non-empty set; and every archive a rebuild that was not cancelled has
\* saved holds, for each entry of the original whose name none of those
\* prefixes starts, one entry with the same name, kind and content, and
\* holds nothing else.
SubtreeRemoval ==
    /\ \A j \in Jobs :
          (Pending(j) /\ Suspended(jobs[j])) =>
              /\ Range(jobs[j].toRemove) = Unselected(extensionsToKeep)
              /\ Range(jobs[j].toRemove) # {}
              /\ Range(jobs[j].toRemove) \subseteq Filenames(extensions)
    /\ \A b \in Blobs :
          (b.kind = "archive" /\ ~b.aborted) =>
              /\ {e.idx : e \in Range(b.entries)} = Survivors(b.file, Range(b.removed))
              /\ \A e \in Range(b.entries) :
                    /\ e.filename = Catalog(b.file)[e.idx].filename
                    /\ e.directory = Catalog(b.file)[e.idx].directory
                    /\ e.data = Catalog(b.file)[e.idx].data
              /\ Len(b.entries) = Cardinality(Survivors(b.file, Range(b.removed)))

\* A rebuild of file 2 that removed Ext1.appex/ alone has saved its archive:
\* the two entries under that prefix, which are not contiguous, are gone and
\* the sibling Ext1.appex.sig is kept.
SubtreeRemovalWitness ==
    \E b \in Blobs :
        /\ b.kind = "archive" /\ ~b.aborted /\ b.file = 2
        /\ Len(b.removed) = 1
        /\ {e.idx : e \in Range(b.entries)} = {2, 3, 5}

\* C2 (no-op rebuild): a save that starts while the selection maps every
\* discovered extension to true saves the chosen file itself, creates no
\* writer, makes no add call, suspends nowhere and leaves progress at 1 of 1
\* with the status "Done!".
NoOpRebuild ==
    [][(/\ Len(jobs') = Len(jobs) + 1
        /\ \A name \in DOMAIN extensionsToKeep : extensionsToKeep[name] = TRUE)
       => (/\ saved' = Append(saved, FileBlob(Len(jobs'), files))
           /\ ~jobs'[Len(jobs')].writer
           /\ jobs'[Len(jobs')].adds = << >>
           /\ ~Suspended(jobs'[Len(jobs')])
           /\ progress' = 1 /\ progressMax' = 1 /\ progressText' = "Done!"
           /\ abortController' = 0 /\ ~saving')]_vars

\* The chosen file has just been saved unchanged.
NoOpRebuildWitness ==
    /\ Len(saved) > 0
    /\ saved[Len(saved)].kind = "file"
    /\ saved[Len(saved)].file = files
    /\ progress = 1 /\ progressMax = 1
    /\ \A j \in Jobs : ~Suspended(jobs[j])

\* C3 (aborted means no output): no blob is saved by an executor whose abort
\* listener has run.
AbortedMeansNoOutput == \A b \in Blobs : ~b.aborted

\* C4 (cancellation check points): once its listener has run, an executor
\* never moves on to another entry, and the only add call it can still make
\* is the one for the entry whose data it was reading; and no executor has
\* made an add call for an entry after the one it is processing.
CancellationCheckPoints ==
    /\ [](\A j \in Jobs : \A n \in 1..Len(jobs[j].adds) :
              jobs[j].adds[n].idx <= jobs[j].i)
    /\ [][\A j \in Jobs :
             (jobs[j].aborted /\ jobs'[j] # Ended) =>
                 /\ jobs'[j].i = jobs[j].i
                 /\ \/ jobs'[j].adds = jobs[j].adds
                    \/ /\ jobs[j].pc = "read"
                       /\ jobs'[j].adds =
                              Append(jobs[j].adds,
                                     AddCall(Catalog(jobs[j].cat), jobs[j].i))]_vars

\* A cancelled executor has left the loop and is closing its writer although
\* an entry after the one it was processing would have been written.
CancellationCheckPointsWitness ==
    \E j \in Jobs :
        /\ jobs[j].aborted /\ jobs[j].pc = "close"
        /\ Len(jobs[j].adds) > 0
        /\ \E n \in Survivors(jobs[j].cat, Range(jobs[j].toRemove)) : n > jobs[j].i

\* C5 (errors never leave the system saving): when an awaited call of the
\* executor has rejected, the job state is cleared.
ErrorsClearJobState ==
    \A j \in Jobs : jobs[j].pc = "threw" => (~saving /\ abortController = 0)

\* C6 (single active job): at most one executor has started and not ended.
SingleActiveJob == Cardinality({j \in Jobs : Suspended(jobs[j])}) <= 1

\* C7 (clear waits for the job): the catalog an executor was started on is
\* still held in ipa while that executor is running.
ClearWaitsForJob == \A j \in Jobs : Suspended(jobs[j]) => ipa = jobs[j].cat

\* C8 (progress monotonicity): in every step that leaves the pending attempt
\* pending, or that ends it with its archive saved, progress does not
\* decrease; and when it ends so, progress is the total set at its start.
ProgressMonotonic ==
    [][\A j \in Jobs :
          (/\ Pending(j)
           /\ abortController' = j \/ Len(saved') > Len(saved))
          => (/\ progress' >= progress
              /\ Len(saved') > Len(saved) /\ abortController' = 0
                    => progress' = ProgressTotal(Len(Catalog(jobs[j].cat))))]_vars

\* C9 (order preservation): the add calls of an executor, and the entries of
\* a saved archive, are entries of the catalog at strictly increasing
\* positions.
OrderPreservation ==
    /\ \A j \in Jobs : \A a, b \in 1..Len(jobs[j].adds) :
          /\ jobs[j].adds[a].idx \in 1..Len(Catalog(jobs[j].cat))
          /\ jobs[j].adds[a].filename =
                 Catalog(jobs[j].cat)[jobs[j].adds[a].idx].filename
          /\ a < b => jobs[j].adds[a].idx < jobs[j].adds[b].idx
    /\ \A x \in Blobs : \A a, b \in 1..Len(x.entries) :
          a < b => x.entries[a].idx < x.entries[b].idx

\* An executor on file 2 has made the add calls for entries 2, 3 and 5.
OrderPreservationWitness ==
    \E j \in Jobs :
        /\ jobs[j].cat = 2
        /\ [n \in 1..Len(jobs[j].adds) |-> jobs[j].adds[n].idx] = <<2, 3, 5>>

\* The directory entries of file f whose name ends in ".appex/".
Discovered(f) ==
    {n \in 1..Len(Catalog(f)) :
        Catalog(f)[n].directory /\ EndsWithAppexSlash(Catalog(f)[n].filename)}

\* C10 (default selection and selection domain): the keys of the selection
\* are always the names of the discovered extensions, one key for each; and
\* the step of loadIPA that publishes a catalog with N discovered extensions
\* leaves a selection of N keys, all true.
SelectionDomain ==
    /\ [](/\ DOMAIN extensionsToKeep = Filenames(extensions)
          /\ Cardinality(DOMAIN extensionsToKeep) = Len(extensions))
    /\ [][(ipa' # ipa /\ ipa' # 0) =>
             /\ Cardinality(DOMAIN extensionsToKeep') = Cardinality(Discovered(ipa'))
             /\ \A name \in DOMAIN extensionsToKeep' : extensionsToKeep'[name] = TRUE]_vars

\* File 2 is loaded, with its two extensions, and one of them is toggled off.
SelectionDomainWitness ==
    /\ ipa = 2
    /\ Cardinality(DOMAIN extensionsToKeep) = 2
    /\ Cardinality(Unselected(extensionsToKeep)) = 1

\* The rebuild that is the pending attempt and has not ended, if there is one.
Rebuilding(j) == j \in Jobs /\ Pending(j) /\ Suspended(jobs[j])

\* C11 as stated (progress total): while a rebuild is the pending attempt,
\* progressMax is floor(entryCount * 1.1), the greatest integer m with
\* 10 * m <= 11 * entryCount.
ProgressTotalIsFloor ==
    \A j \in Jobs :
        Rebuilding(j) =>
            /\ 10 * progressMax <= 11 * Len(Catalog(jobs[j].cat))
            /\ 11 * Len(Catalog(jobs[j].cat)) < 10 * progressMax + 10

\* C11 as amended: while a rebuild is the pending attempt, progressMax is
\* entryCount * 1.1 rounded to the nearest integer, halves up: the integer m
\* with m - 1/2 <= entryCount * 1.1 < m + 1/2.
ProgressTotalIsRounded ==
    \A j \in Jobs :
        Rebuilding(j) =>
            /\ 10 * progressMax - 5 <= 11 * Len(Catalog(jobs[j].cat))
            /\ 11 * Len(Catalog(jobs[j].cat)) < 10 * progressMax + 5

\* A rebuild of the five entries of file 2 is running with a total of 6.
ProgressTotalWitness ==
    \E j \in Jobs :
        /\ Rebuilding(j)
        /\ Len(Catalog(jobs[j].cat)) = 5
        /\ progressMax = 6

\* C12 (progress invariant): whenever a rebuild is in progress, progress does
\* not exceed progressMax, whatever executors of earlier attempts are still
\* running beside it.
ProgressWithinTotal ==
    \A j \in Jobs : Rebuilding(j) => progress <= progressMax

\* A step in which loadIPA number l leaves the resolution of the descriptor or
\* of the icon, by a result or by a failure.
ResolutionEnds(l) ==
    /\ loads[l].pc \in {"metadata", "icon"}
    /\ loads'[l] # loads[l]

\* C13 (resolution failures are non-fatal): whenever the catalog is set, the
\* discovered extensions and a selection with a key for each of them are set
\* with it and Save is offered when there is an extension; and no step that
\* ends the resolution of the descriptor or of the icon, a failing one
\* included, changes the chosen file, the catalog, the extensions, the
\* selection, or the state that gates a later save.
ResolutionFailuresNonFatal ==
    /\ [](ipa # 0 =>
            /\ extensions = Discover(Catalog(ipa))
            /\ DOMAIN extensionsToKeep = Filenames(extensions)
            /\ (files # 0 /\ Len(extensions) # 0 => SaveShown))
    /\ [][\A l \in 1..Len(loads) :
            ResolutionEnds(l) =>
                UNCHANGED <<files, ipa, extensions, extensionsToKeep,
                            saving, abortController>>]_vars

\* The only load, of file 1, ended with neither descriptor nor icon resolved,
\* its catalog, extension and selection are set, and a save then emitted an
\* output.
ResolutionFailuresWitness ==
    /\ Len(loads) = 1
    /\ loads[1] = LoadEnded
    /\ ipa = 1
    /\ metadata = "null"
    /\ appIcon = 0
    /\ Len(extensions) = 1
    /\ DOMAIN extensionsToKeep = Filenames(extensions)
    /\ saved # <<>>

\* C14 (corrupt archive): the catalog, the extensions and the selection are
\* unset while a chosen file has no catalog, and the interface shows "file
\* chosen, catalog absent" only while a loadIPA is still reading the entries
\* of the chosen file: once reading has failed, the user is back at a state
\* where another file can be chosen.
CorruptArchiveRecovers ==
    (files # 0 /\ ipa = 0) =>
        /\ extensions = <<>>
        /\ extensionsToKeep = <<>>
        /\ \E l \in 1..Len(loads) :
                loads[l].file = files /\ loads[l].pc = "entries"

\* C15 (writer released on abort): an executor that was cancelled after its
\* writer was created ends only after it has called zipWriter.close(): the
\* step that ends it leaves the await of close() or a later one, never an
\* await inside the loop.
WriterClosedOnAbort ==
    [][\A j \in Jobs :
            (/\ jobs[j].aborted
             /\ jobs[j].writer
             /\ Suspended(jobs[j])
             /\ ~Suspended(jobs'[j])) =>
                jobs[j].pc \in {"close", "getData"}]_vars

\* The paths of the form Payload/<app>.app/PlugIns/<name>.appex/.
IsBundlePath(path) ==
    /\ Len(path) = 5
    /\ path[1] = Payload
    /\ path[2][2] = "app"
    /\ path[3] = PlugIns
    /\ path[4][2] = "appex"
    /\ path[5] = Empty

\* C16 (discovery predicate): the discovered extensions of a published
\* catalog are exactly its entries whose path is
\* Payload/<app>.app/PlugIns/<name>.appex/, and getExtensionName gives a name
\* for every discovered extension.
DiscoveryPredicate ==
    ipa # 0 =>
        /\ \A n \in 1..Len(Catalog(ipa)) :
                (Catalog(ipa)[n] \in Range(extensions))
                    <=> IsBundlePath(Catalog(ipa)[n].filename)
        /\ \A e \in Range(extensions) : getExtensionName(e.filename) # "null"

\* No executor is running or stuck: every attempt made so far has ended.
NoJobActive == \A j \in Jobs : jobs[j].pc = "done"

\* C17 (cancellation while idle, fresh signal): a clearIPA made while no job
\* is active finds no controller and changes no executor; the executor of an
\* attempt that starts has aborted = false and is the only one the new
\* controller can reach; and an executor becomes aborted only in a clearIPA
\* made while it is the pending attempt, so the cancellation of one attempt
\* never aborts another.
FreshSignalPerAttempt ==
    [][/\ (files # 0 /\ files' = 0 /\ NoJobActive) =>
            (abortController = 0 /\ jobs' = jobs)
       /\ Len(jobs') = Len(jobs) + 1 =>
            /\ abortController = 0
            /\ ~jobs'[Len(jobs')].aborted
            /\ abortController' \in {0, Len(jobs')}
            /\ \A j \in Jobs : jobs'[j] = jobs[j]
       /\ \A j \in Jobs :
            (~jobs[j].aborted /\ jobs'[j].aborted) =>
                (abortController = j /\ files # 0 /\ files' = 0)]_vars

\* The first attempt was cancelled and its executor has not ended; a second
\* attempt is pending, its executor running and not aborted.
FreshSignalWitness ==
    /\ Len(jobs) = 2
    /\ Suspended(jobs[1]) /\ jobs[1].aborted
    /\ Rebuilding(2) /\ ~jobs[2].aborted

\* C18 (cancelled job is silent): a step of an executor that was cancelled
\* before the step writes none of progress, progressMax and progressText.
CancelledJobIsSilent ==
    [][\A j \in Jobs :
            (jobs[j].aborted /\ jobs'[j] # jobs[j]) =>
                UNCHANGED <<progress, progressMax, progressText>>]_vars

\* C19 (clear is complete and stable): from clearIPA until the next file is
\* chosen, that is while no file is chosen, the catalog, the metadata, the
\* icon, the extensions and the selection are all unset.
ClearIsStable ==
    files = 0 =>
        /\ ipa = 0
        /\ metadata = "null"
        /\ appIcon = 0
        /\ extensions = <<>>
        /\ extensionsToKeep = <<>>

\* The outputs emitted by attempt j.
Emitted(j) == {n \in 1..Len(saved) : saved[n].job = j}

\* Attempt j is over, saveIPA has returned from it, and it emitted one output.
Finished(j) ==
    /\ j \in Jobs
    /\ jobs[j].pc = "done"
    /\ ~Pending(j)
    /\ Cardinality(Emitted(j)) = 1

\* C20 (save terminates), under fair I/O: a rebuild that is the pending
\* attempt eventually stops being pending or is hit by an I/O failure; the
\* step that ends a pending rebuild without a clearIPA, the only other way
\* it stops being pending, sets the status to "Done!" with progress at the
\* total, saving false and abortController null, and emits the attempt's
\* only output; and so does the step of an attempt that keeps every
\* extension.
SaveTerminates ==
    /\ (\E j \in Jobs : Rebuilding(j)) ~>
            \/ abortController = 0
            \/ \E j \in Jobs : Pending(j) /\ jobs[j].pc = "threw"
    /\ [][/\ \A j \in Jobs :
                (Rebuilding(j) /\ abortController' # j /\ files' # 0) =>
                    /\ progressText' = "Done!"
                    /\ progress' = progressMax'
                    /\ ~saving'
                    /\ abortController' = 0
                    /\ Emitted(j) = {}
                    /\ saved' = Append(saved, ArchiveBlob(j, jobs[j]))
                    /\ jobs'[j].pc = "done"
          /\ (Len(jobs') = Len(jobs) + 1 /\ ipa # 0 /\ abortController' = 0) =>
                /\ progressText' = "Done!"
                /\ progress' = progressMax'
                /\ ~saving'
                /\ saved' = Append(saved, FileBlob(Len(jobs'), files))]_vars

\* A rebuild that was never cancelled has finished: its archive is the one
\* output it emitted, the status is "Done!" and no attempt is pending.
SaveTerminatesWitness ==
    \E j \in Jobs :
        /\ Finished(j)
        /\ \E n \in Emitted(j) : saved[n].kind = "archive" /\ ~saved[n].aborted
        /\ files # 0
        /\ progressText = "Done!"
        /\ progress = progressMax
        /\ ~saving
        /\ abortController = 0

=============================================================================
